---- MODULE Spec2Model ----
(***************************************************************************)
(* The issue-resolution action pipeline of git-bob:                        *)
(*   solve_github_issue     (src/src/git_bob/_ai_github_utilities.py:378)  *)
(*   create_or_modify_file  (src/src/git_bob/_ai_github_utilities.py:208)  *)
(*                                                                         *)
(* Python values are modelled as tagged records.  A Python string is the   *)
(* sequence of its "/"-separated segments, so "docs/a.ipynb" is            *)
(* <<"docs", "a.ipynb">> and "/a.py" is <<"", "a.py">>.  A dict is a       *)
(* function from its keys to values.                                       *)
(***************************************************************************)
EXTENDS Integers, Sequences, FiniteSets, TLC

VARIABLES
    raw,              \* the parsed action list, text_to_json(modifications)
    instructions,     \* the list the execution loop iterates over
    pc,               \* position in solve_github_issue / create_or_modify_file
    i,                \* 1-based index of the instruction being processed
    processed,        \* indices of the instructions the loop has taken up, in order
    errors,           \* the list errors
    commit_messages,  \* the list commit_messages
    host_calls,       \* calls made to the repository host, in order
    oracle_calls,     \* calls made to prompt_function, in order
    notebook_runs,    \* calls made to execute_notebook, with their outcome
    cwd,              \* os.getcwd(), relative to the checkout root
    environ,          \* os.environ
    disk,             \* files on the local disk, relative to the checkout root
    frame,            \* the locals of the running create_or_modify_file call
    base_branch,      \* the parameter base_branch of solve_github_issue
    branch_name,      \* the working branch
    reports,          \* pull requests and comments sent to the host, in order
    agent_name,       \* AGENT_NAME, a string as the sequence of its characters
    split_pc,         \* position in split_issue_in_sub_issues
    sub_tasks,        \* the titles still to be turned into sub-issues
    issues            \* the issues created on the host, in order

vars == <<raw, instructions, pc, i, processed, errors, commit_messages, host_calls,
          oracle_calls, notebook_runs, cwd, environ, disk, frame,
          base_branch, branch_name, reports, agent_name, split_pc, sub_tasks, issues>>

-----------------------------------------------------------------------------
(* Bounds of the model *)

\* longest action list the planner returns
MaxActions == 2

\* longest list the sort is checked on by itself
MaxSortLen == 4

-----------------------------------------------------------------------------
(* Python values *)

Str(segments) == [t |-> "str", v |-> segments]
Int5 == [t |-> "int", v |-> <<>>]
None == [t |-> "none", v |-> <<>>]

IsStr(x) == x.t = "str"

\* a dict of the parsed list, and a list element that is no mapping
Dict(items) == [py |-> "dict", items |-> items]
NotADict == [py |-> "str", items |-> <<>>]

IsDict(x) == x.py = "dict"

\* dict.get(key): the value, or None
Get(x, key) == IF key \in DOMAIN x.items THEN x.items[key] ELSE None

\* ".github" in filename, on the segments of a string
ContainsGithub(s) == \E k \in 1..Len(s.v) : s.v[k] = ".github"

RECURSIVE LStrip(_)
LStrip(p) == IF p /= <<>> /\ Head(p) = "" THEN LStrip(Tail(p)) ELSE p

RECURSIVE RStrip(_)
RStrip(p) == IF p /= <<>> /\ p[Len(p)] = "" THEN RStrip(SubSeq(p, 1, Len(p) - 1)) ELSE p

\* str.strip("/")
Strip(s) == Str(RStrip(LStrip(s.v)))

\* os.path.dirname(filename)
Dirname(p) == IF p = <<>> THEN <<>> ELSE SubSeq(p, 1, Len(p) - 1)

IpynbNames == {"a.ipynb", "b.ipynb"}

\* filename.endswith('.ipynb')
EndsWithIpynb(p) == p /= <<>> /\ p[Len(p)] \in IpynbNames

-----------------------------------------------------------------------------
(* The action records the planner may return *)

Tag(name) == Str(<<name>>)

PyFile == Str(<<"", "src", "a.py">>)
PyFile2 == Str(<<"src", "b.py">>)
Notebook == Str(<<"docs", "a.ipynb">>)
RootNotebook == Str(<<"b.ipynb">>)
Workflow == Str(<<".github", "workflows", "ci.yml">>)
Url == Str(<<"https:", "", "host", "x.csv">>)
DataFile == Str(<<"data", "x.csv">>)
DataFile2 == Str(<<"data", "y.csv">>)

WellFormedRecords ==
    { Dict([action |-> Tag("create"), filename |-> Notebook]),
      Dict([action |-> Tag("modify"), filename |-> RootNotebook]),
      Dict([action |-> Tag("modify"), filename |-> PyFile]),
      Dict([action |-> Tag("download"), source_url |-> Url, target_filename |-> DataFile]),
      Dict([action |-> Tag("rename"), old_filename |-> PyFile, new_filename |-> PyFile2]),
      Dict([action |-> Tag("delete"), filename |-> PyFile2]),
      Dict([action |-> Tag("execute"), filename |-> Notebook]) }

ProtectedRecords ==
    { Dict([action |-> Tag("create"), filename |-> Workflow]),
      Dict([action |-> Tag("copy"), old_filename |-> PyFile, new_filename |-> Workflow]) }

InvalidRecords ==
    { Dict([action |-> Tag("move"), filename |-> PyFile]),
      Dict([filename |-> PyFile]),
      Dict([action |-> Tag("rename"), old_filename |-> PyFile]),
      Dict([action |-> Tag("delete"), filename |-> Int5]),
      NotADict }

RawRecords == WellFormedRecords \cup ProtectedRecords \cup InvalidRecords

RawLists == UNION { [1..n -> RawRecords] : n \in 0..MaxActions }

-----------------------------------------------------------------------------
(* sorted(instructions, key=lambda x: x.get('action') != 'download') *)

\* the sort key: False for a download, True for everything else
SortKey(x) == Get(x, "action") /= Tag("download")

\* a < b on Python booleans
KeyLess(a, b) == (~a) /\ b

\* x goes in front of the first element with a greater key: equal keys keep
\* their order (sorted is stable)
RECURSIVE InsertUnstable(_, _)
InsertUnstable(s, x) ==
    IF s = <<>> THEN <<x>>
    ELSE IF ~KeyLess(SortKey(Head(s)), SortKey(x)) THEN <<x>> \o s
    ELSE <<Head(s)>> \o InsertUnstable(Tail(s), x)

RECURSIVE Insert(_, _)
Insert(s, x) ==
    IF s = <<>> THEN <<x>>
    ELSE IF KeyLess(SortKey(x), SortKey(Head(s))) THEN <<x>> \o s
    ELSE <<Head(s)>> \o Insert(Tail(s), x)

RECURSIVE SortInto(_, _)
SortInto(acc, rest) ==
    IF rest = <<>> THEN acc ELSE SortInto(Insert(acc, Head(rest)), Tail(rest))

Sorted(list) == SortInto(<<>>, list)

-----------------------------------------------------------------------------
(* File contents.  A document is the sequence of its code cells, each with its
   source and its outputs ("" for none); a file that is no notebook is one
   cell of text. *)

Cell(source, outputs) == [source |-> source, outputs |-> outputs]

\* the notebook on the branch, with the outputs of an earlier run
OriginalNotebook == <<Cell("load", "old1"), Cell("plot", "old2")>>

\* the file on the branch that is no notebook
OriginalText == <<Cell("text", "")>>

\* what the oracle may return for a notebook: the cells of the original, or a
\* changed cell that carries outputs
GeneratedNotebooks ==
    { <<Cell("load", ""), Cell("plot", "")>>,
      <<Cell("load", ""), Cell("plot2", "llm")>> }

GeneratedTexts == { <<Cell("text2", "")>> }

\* erase_outputs_of_code_cells(content)
EraseOutputs(content) == [k \in DOMAIN content |-> Cell(content[k].source, "")]

\* restore_outputs_of_code_cells(new_content, original) raises ValueError when
\* a code cell of the new content has no match in the original
RestoreRaises(new_content, original) ==
    \/ Len(new_content) /= Len(original)
    \/ \E k \in DOMAIN new_content : new_content[k].source /= original[k].source

\* restore_outputs_of_code_cells(new_content, original), when it returns
RestoreOutputs(new_content, original) ==
    [k \in DOMAIN new_content |-> Cell(new_content[k].source, original[k].outputs)]

\* execute_notebook(content): the notebook with the outputs of the run, when
\* every cell ran and when the first cell failed
Executed(content) == [k \in DOMAIN content |-> Cell(content[k].source, "run")]
ExecutedWithError(content) ==
    [k \in DOMAIN content |->
        Cell(content[k].source, IF k = 1 THEN "error" ELSE content[k].outputs)]

-----------------------------------------------------------------------------
(* Branches *)

\* base_branch=None, the name of the default branch, the name of another branch
NoBranch == "None"
DefaultBranch == "main"
OtherBranch == "feature"

BaseBranches == {NoBranch, DefaultBranch, OtherBranch}

\* create_branch(repository, parent_branch): the name of the branch it created
NewBranch == "git-bob-mod"

-----------------------------------------------------------------------------
(* The agent name *)

\* os.environ.get("GIT_BOB_AGENT_NAME", "git-bob")
DefaultAgentName == <<"g", "i", "t", "-", "b", "o", "b">>

-----------------------------------------------------------------------------
(* State of the run *)

InitialEnviron == { <<"GITHUB_API_KEY", "secret">>, <<"HOME", "/root">> }

\* what the code of a notebook may leave in os.environ
NotebookEnvironEffects == { {}, { <<"NB_DEBUG", "1">> } }

\* the locals of create_or_modify_file; original_ipynb_file_content,
\* error_message and raised hold "is not None" / "an exception is in flight"
NoFrame ==
    [ filename |-> <<>>,
      attempt |-> 0,
      an_error_happened |-> FALSE,
      original_ipynb_file_content |-> FALSE,
      new_content |-> <<>>,
      not_executed_notebook |-> <<>>,
      list_of_files |-> <<>>,
      do_execute_notebook |-> FALSE,
      created_files |-> <<>>,
      current_dir |-> <<>>,
      path_without_filename |-> <<>>,
      saved_environment |-> {},
      error_message |-> FALSE,
      raised |-> FALSE ]

Init ==
    /\ raw = <<>>
    /\ instructions = <<>>
    /\ pc = "plan"
    /\ i = 0
    /\ processed = <<>>
    /\ errors = <<>>
    /\ commit_messages = <<>>
    /\ host_calls = <<>>
    /\ oracle_calls = <<>>
    /\ notebook_runs = <<>>
    /\ cwd = <<>>
    /\ environ = InitialEnviron
    /\ disk = {}
    /\ frame = NoFrame
    /\ base_branch \in BaseBranches
    /\ branch_name = NoBranch
    /\ reports = <<>>
    /\ agent_name = DefaultAgentName
    /\ split_pc = "idle"
    /\ sub_tasks = <<>>
    /\ issues = <<>>

\* a call of prompt_function, and one whose prompt quotes a document
OracleCall(prompt) ==
    [i |-> i, prompt |-> prompt, environ |-> environ, cwd |-> cwd, content |-> <<>>]
OracleCallWith(prompt, content) == [OracleCall(prompt) EXCEPT !.content = content]

\* a call of the repository host; redacted tells that the text it sends went
\* through redact_text, raised that the host raised instead of doing it
HostCall(op, path) ==
    [i |-> i, op |-> op, path |-> path, branch |-> branch_name, content |-> <<>>,
     redacted |-> FALSE, raised |-> FALSE]

\* the write of the primary file: redact_text(new_content) and
\* redact_text(commit_message)
HostWrite(path, content) ==
    [HostCall("write_file_in_branch", path) EXCEPT !.content = content, !.redacted = TRUE]

\* the call the host answered with an exception
Raising(call) == [call EXCEPT !.raised = TRUE]

ExceptPropagates(e) ==
    /\ errors' = Append(errors, [i |-> i, kind |-> "exception", what |-> e])
    /\ i' = i
    /\ pc' = "raised"
    /\ frame' = NoFrame

\* the except clause of the execution loop: the error is recorded and the
\* loop goes on with the next instruction
Except(e) ==
    /\ errors' = Append(errors, [i |-> i, kind |-> "exception", what |-> e])
    /\ i' = i + 1
    /\ pc' = "loop"
    /\ frame' = NoFrame

-----------------------------------------------------------------------------
(* solve_github_issue *)

\* the planning prompt and text_to_json
Plan ==
    /\ pc = "plan"
    /\ UNCHANGED <<base_branch, branch_name, reports>>
    /\ UNCHANGED <<agent_name, split_pc, sub_tasks, issues>>
    /\ \E list \in RawLists : raw' = list
    /\ oracle_calls' = Append(oracle_calls, OracleCall("modifications"))
    /\ pc' = "branch"
    /\ UNCHANGED <<instructions, i, processed, errors, commit_messages, host_calls,
                   notebook_runs, cwd, environ, disk, frame>>

CreatesBranchWithoutBaseOnly(base) == base = NoBranch

\* base_branch is None or base_branch == repo.get_branch(repo.default_branch).name
CreatesBranch(base) == base = NoBranch \/ base = DefaultBranch

\* a new branch off the base branch, or the base branch itself
SelectBranch ==
    /\ pc = "branch"
    /\ UNCHANGED <<agent_name, split_pc, sub_tasks, issues>>
    /\ IF CreatesBranch(base_branch)
       THEN /\ branch_name' = NewBranch
            /\ host_calls' = Append(host_calls,
                   [HostCall("create_branch", <<>>) EXCEPT !.branch = base_branch])
       ELSE /\ branch_name' = base_branch
            /\ UNCHANGED host_calls
    /\ pc' = "sort"
    /\ UNCHANGED <<raw, instructions, i, processed, errors, commit_messages, oracle_calls,
                   notebook_runs, cwd, environ, disk, frame, base_branch, reports>>

\* x.get of a list element that is no mapping raises AttributeError
SortRaises(list) == \E k \in 1..Len(list) : ~IsDict(list[k])

SortInstructions ==
    /\ pc = "sort"
    /\ UNCHANGED <<base_branch, branch_name, reports>>
    /\ UNCHANGED <<agent_name, split_pc, sub_tasks, issues>>
    /\ IF SortRaises(raw)
       THEN /\ pc' = "raised"
            /\ UNCHANGED <<instructions, i>>
       ELSE /\ instructions' = Sorted(raw)
            /\ i' = 1
            /\ pc' = "loop"
    /\ UNCHANGED <<raw, processed, errors, commit_messages, host_calls, oracle_calls,
                   notebook_runs, cwd, environ, disk, frame>>

\* for instruction in instructions: action = instruction.get('action')
LoopHead ==
    /\ pc = "loop"
    /\ UNCHANGED <<base_branch, branch_name, reports>>
    /\ UNCHANGED <<agent_name, split_pc, sub_tasks, issues>>
    /\ IF i > Len(instructions)
       THEN /\ pc' = "report"
            /\ UNCHANGED processed
       ELSE /\ processed' = Append(processed, i)
            /\ pc' = "guard"
    /\ UNCHANGED <<raw, instructions, i, errors, commit_messages, host_calls,
                   oracle_calls, notebook_runs, cwd, environ, disk, frame>>

FilenameKeys == <<"filename", "new_filename", "old_filename", "target_filename">>

\* the loop over the filename keys: an error per key whose value contains
\* ".github"; the continue goes on with the next key.  The in-test on a value
\* that is no string raises TypeError, outside the try.
RECURSIVE GuardScan(_, _, _)
GuardScan(instruction, k, acc) ==
    IF k > Len(FilenameKeys) THEN [errors |-> acc, raised |-> FALSE]
    ELSE IF FilenameKeys[k] \notin DOMAIN instruction.items
         THEN GuardScan(instruction, k + 1, acc)
    ELSE LET filename == instruction.items[FilenameKeys[k]] IN
         IF ~IsStr(filename) THEN [errors |-> acc, raised |-> TRUE]
         ELSE IF ContainsGithub(filename)
              THEN GuardScan(instruction, k + 1,
                       Append(acc, [i |-> i, kind |-> "workflow",
                                    what |-> "Modifying workflow files is not allowed."]))
         ELSE GuardScan(instruction, k + 1, acc)

\* where the run goes after the filename keys were scanned without a raise
AfterGuard(instruction) == "dispatch"

Guard ==
    /\ pc = "guard"
    /\ UNCHANGED <<base_branch, branch_name, reports>>
    /\ UNCHANGED <<agent_name, split_pc, sub_tasks, issues>>
    /\ LET scan == GuardScan(instructions[i], 1, <<>>) IN
         /\ errors' = errors \o scan.errors
         /\ pc' = IF scan.raised THEN "raised" ELSE AfterGuard(instructions[i])
    /\ UNCHANGED <<raw, instructions, i, processed, commit_messages, host_calls,
                   oracle_calls, notebook_runs, cwd, environ, disk, frame>>

\* the keys each branch of the if/elif chain reads, in the order it reads them
KeysRead(action) ==
    IF action \in {Tag("create"), Tag("modify"), Tag("delete")} THEN <<"filename">>
    ELSE IF action = Tag("download") THEN <<"source_url", "target_filename">>
    ELSE IF action \in {Tag("rename"), Tag("copy")} THEN <<"old_filename", "new_filename">>
    ELSE <<>>

\* instruction[key] raises KeyError for an absent key
MissingKey(instruction) ==
    \E k \in 1..Len(KeysRead(Get(instruction, "action"))) :
        KeysRead(Get(instruction, "action"))[k] \notin DOMAIN instruction.items

HostOperation(action) ==
    IF action = Tag("download") THEN "download_to_repository"
    ELSE IF action = Tag("rename") THEN "rename_file_in_repository"
    ELSE IF action = Tag("delete") THEN "delete_file_from_repository"
    ELSE "copy_file_in_repository"

\* the file the host operation produces or removes
HostTarget(instruction) ==
    LET action == Get(instruction, "action") IN
    IF action = Tag("download") THEN Strip(instruction.items["target_filename"]).v
    ELSE IF action = Tag("delete") THEN Strip(instruction.items["filename"]).v
    ELSE Strip(instruction.items["new_filename"]).v

\* the branches of the if/elif chain
CreateOrModifyTags == {Tag("create"), Tag("modify")}
HostOperationTags == {Tag("download"), Tag("rename"), Tag("delete"), Tag("copy")}

\* action == 'create' or action == 'modify'
DispatchCreateOrModify ==
    /\ pc = "dispatch"
    /\ UNCHANGED <<base_branch, branch_name, reports>>
    /\ UNCHANGED <<agent_name, split_pc, sub_tasks, issues>>
    /\ Get(instructions[i], "action") \in CreateOrModifyTags
    /\ IF MissingKey(instructions[i])
       THEN Except("KeyError")
       ELSE /\ frame' = [NoFrame EXCEPT !.filename = Strip(instructions[i].items["filename"]).v]
            /\ pc' = "cofm_attempt"
            /\ UNCHANGED <<i, errors>>
    /\ UNCHANGED <<raw, instructions, processed, commit_messages, host_calls,
                   oracle_calls, notebook_runs, cwd, environ, disk>>

\* action in download, rename, delete, copy: one host operation, which may raise
DispatchHostOperation ==
    /\ pc = "dispatch"
    /\ UNCHANGED <<base_branch, branch_name, reports>>
    /\ UNCHANGED <<agent_name, split_pc, sub_tasks, issues>>
    /\ Get(instructions[i], "action") \in HostOperationTags
    /\ IF MissingKey(instructions[i])
       THEN /\ Except("KeyError")
            /\ UNCHANGED <<host_calls, commit_messages>>
       ELSE LET op == HostOperation(Get(instructions[i], "action"))
                call == HostCall(op, HostTarget(instructions[i]))
            IN  \/ /\ host_calls' = Append(host_calls, call)
                   /\ commit_messages' = Append(commit_messages,
                          [i |-> i, what |-> op, created_files |-> <<>>])
                   /\ i' = i + 1
                   /\ pc' = "loop"
                   /\ UNCHANGED <<errors, frame>>
                \/ /\ host_calls' = Append(host_calls, Raising(call))
                   /\ Except("GithubException")
                   /\ UNCHANGED commit_messages
    /\ UNCHANGED <<raw, instructions, processed, oracle_calls, notebook_runs, cwd,
                   environ, disk>>

\* no branch of the if/elif chain matches: the loop body ends
DispatchNothing ==
    /\ pc = "dispatch"
    /\ UNCHANGED <<base_branch, branch_name, reports>>
    /\ UNCHANGED <<agent_name, split_pc, sub_tasks, issues>>
    /\ Get(instructions[i], "action") \notin CreateOrModifyTags \cup HostOperationTags
    /\ i' = i + 1
    /\ pc' = "loop"
    /\ UNCHANGED <<raw, instructions, processed, errors, commit_messages, host_calls,
                   oracle_calls, notebook_runs, cwd, environ, disk, frame>>

-----------------------------------------------------------------------------
(* create_or_modify_file, called from the create/modify branch *)

number_of_attempts == 3

\* the file the notebook code saves, next to the working directory it runs in
NotebookOutput == <<"out.png">>

\* the lists the oracle may name for a notebook: nothing, the output relative
\* to the repository root, the output relative to the notebook
ListsOfFiles(filename) ==
    { <<>>, <<Dirname(filename) \o NotebookOutput>>, <<NotebookOutput>> }

PathExistsAlways(file) == TRUE

\* os.path.exists(file): a relative name resolves against the working directory
PathExists(file) == (cwd \o file) \in disk

\* the documents the oracle may return for a file
Generated(filename) == IF EndsWithIpynb(filename) THEN GeneratedNotebooks ELSE GeneratedTexts

\* the file content the prompt quotes: that of an existing file, a notebook
\* with its outputs erased
FileContentInPrompt(exists, filename) ==
    IF ~exists THEN <<>>
    ELSE IF EndsWithIpynb(filename) THEN EraseOutputs(OriginalNotebook)
    ELSE OriginalText

\* for attempt in range(number_of_attempts): ... up to split_content_and_summary.
\* The prompt or the split may raise; nothing in this function catches it.
CofmAttempt ==
    /\ pc = "cofm_attempt"
    /\ UNCHANGED <<base_branch, branch_name, reports>>
    /\ UNCHANGED <<agent_name, split_pc, sub_tasks, issues>>
    /\ \E exists \in BOOLEAN :
         /\ oracle_calls' = Append(oracle_calls,
                OracleCallWith("file_content", FileContentInPrompt(exists, frame.filename)))
         /\ \/ \E response \in Generated(frame.filename) :
                 /\ frame' = [frame EXCEPT
                      !.an_error_happened = FALSE,
                      !.original_ipynb_file_content = exists /\ EndsWithIpynb(frame.filename),
                      !.new_content = response]
                 /\ pc' = "cofm_reconcile"
                 /\ UNCHANGED <<i, errors>>
            \/ Except("ContentSplitError")
    /\ UNCHANGED <<raw, instructions, processed, commit_messages, host_calls,
                   notebook_runs, cwd, environ, disk>>

\* where the call goes after the outputs were dealt with
AfterReconcile(do_execute_notebook) ==
    IF do_execute_notebook THEN "cofm_chdir" ELSE "cofm_finish"

DoExecuteAlways(original_is_not_none, new_content, filename) ==
    original_is_not_none \/ EndsWithIpynb(filename)
DoExecuteNoFallback(original_is_not_none, new_content, filename) ==
    ~original_is_not_none /\ EndsWithIpynb(filename)

\* do_execute_notebook: set when the outputs of an existing notebook cannot be
\* restored, and for a notebook that is new
DoExecuteNotebook(original_is_not_none, new_content, filename) ==
    IF original_is_not_none THEN RestoreRaises(new_content, OriginalNotebook)
    ELSE EndsWithIpynb(filename)

ReconciledKeepsOutputs(original_is_not_none, new_content, filename) ==
    IF original_is_not_none /\ ~RestoreRaises(new_content, OriginalNotebook)
    THEN RestoreOutputs(new_content, OriginalNotebook)
    ELSE new_content

\* new_content: with the outputs of the original when they can be restored,
\* as generated when they cannot, with its outputs erased for a new notebook
Reconciled(original_is_not_none, new_content, filename) ==
    IF original_is_not_none
    THEN IF RestoreRaises(new_content, OriginalNotebook)
         THEN new_content
         ELSE RestoreOutputs(new_content, OriginalNotebook)
    ELSE IF EndsWithIpynb(filename) THEN EraseOutputs(new_content)
    ELSE new_content

\* restore the outputs of an existing notebook, erase those of a new one
CofmReconcile ==
    /\ pc = "cofm_reconcile"
    /\ UNCHANGED <<base_branch, branch_name, reports>>
    /\ UNCHANGED <<agent_name, split_pc, sub_tasks, issues>>
    /\ frame' = [frame EXCEPT
         !.new_content = Reconciled(frame.original_ipynb_file_content,
                                    frame.new_content, frame.filename),
         !.do_execute_notebook = DoExecuteNotebook(frame.original_ipynb_file_content,
                                                   frame.new_content, frame.filename),
         !.created_files = <<>>]
    /\ pc' = AfterReconcile(frame'.do_execute_notebook)
    /\ UNCHANGED <<raw, instructions, i, processed, errors, commit_messages, host_calls,
                   oracle_calls, notebook_runs, cwd, environ, disk>>

\* current_dir = os.getcwd(); os.chdir(path_without_filename)
CofmChdir ==
    /\ pc = "cofm_chdir"
    /\ UNCHANGED <<base_branch, branch_name, reports>>
    /\ UNCHANGED <<agent_name, split_pc, sub_tasks, issues>>
    /\ frame' = [frame EXCEPT !.current_dir = cwd,
                              !.path_without_filename = Dirname(frame.filename)]
    /\ cwd' = IF Len(Dirname(frame.filename)) > 0
              THEN cwd \o Dirname(frame.filename)
              ELSE cwd
    /\ pc' = "cofm_save_environment"
    /\ UNCHANGED <<raw, instructions, i, processed, errors, commit_messages, host_calls,
                   oracle_calls, notebook_runs, environ, disk>>

\* save_and_clear_environment(): the snapshot it returns, what it leaves
Snapshot(env) == env
Cleared(env) == {}

\* restore_environment(saved_environment)
Restored(saved_environment) == saved_environment

\* saved_environment = save_and_clear_environment(), before the try
CofmSaveEnvironment ==
    /\ pc = "cofm_save_environment"
    /\ UNCHANGED <<base_branch, branch_name, reports>>
    /\ UNCHANGED <<agent_name, split_pc, sub_tasks, issues>>
    /\ \/ /\ frame' = [frame EXCEPT !.saved_environment = Snapshot(environ),
                                    !.not_executed_notebook = frame.new_content]
          /\ environ' = Cleared(environ)
          /\ pc' = "cofm_execute"
          /\ UNCHANGED <<i, errors>>
       \/ /\ Except("OSError")
          /\ UNCHANGED environ
    /\ UNCHANGED <<raw, instructions, processed, commit_messages, host_calls,
                   oracle_calls, notebook_runs, cwd, disk>>

AnErrorHappenedOnErrorMessage(error_message) == error_message

\* an_error_happened after execute_notebook returned: the flag is assigned at
\* the top of the attempt only, whatever the execution reports
AnErrorHappened(error_message) == FALSE

EnvironNotRestoredAfterExecute(saved_environment) == environ

\* os.environ after restore_environment(saved_environment) behind the execution
EnvironAfterExecute(saved_environment) == Restored(saved_environment)

\* where the try block goes after execute_notebook returned
AfterExecute(error_message) ==
    IF error_message THEN "cofm_finally" ELSE "cofm_artifacts"

\* new_content, error_message = execute_notebook(new_content);
\* restore_environment(saved_environment)
CofmExecute ==
    /\ pc = "cofm_execute"
    /\ UNCHANGED <<base_branch, branch_name, reports>>
    /\ UNCHANGED <<agent_name, split_pc, sub_tasks, issues>>
    /\ \/ \E error_message \in BOOLEAN :
            /\ notebook_runs' = Append(notebook_runs,
                   [i |-> i, content |-> frame.new_content,
                    outcome |-> IF error_message THEN "error_message" ELSE "executed"])
            /\ frame' = [frame EXCEPT !.new_content = IF error_message
                                                      THEN ExecutedWithError(frame.new_content)
                                                      ELSE Executed(frame.new_content),
                                      !.error_message = error_message,
                                      !.an_error_happened = AnErrorHappened(error_message)]
            /\ environ' = EnvironAfterExecute(frame.saved_environment)
            /\ disk' = IF error_message THEN disk ELSE disk \cup {cwd \o NotebookOutput}
            /\ pc' = AfterExecute(error_message)
       \/ \E effect \in NotebookEnvironEffects :
            /\ notebook_runs' = Append(notebook_runs,
                   [i |-> i, content |-> frame.new_content, outcome |-> "raised"])
            /\ frame' = [frame EXCEPT !.raised = TRUE]
            /\ environ' = environ \cup effect
            /\ pc' = "cofm_finally"
            /\ UNCHANGED disk
    /\ UNCHANGED <<raw, instructions, i, processed, errors, commit_messages, host_calls,
                   oracle_calls, cwd>>

\* the files of a list that exist, in the order of the list
RECURSIVE Existing(_)
Existing(list) ==
    IF list = <<>> THEN <<>>
    ELSE IF PathExists(Head(list)) THEN <<Head(list)>> \o Existing(Tail(list))
    ELSE Existing(Tail(list))

RECURSIVE ArtifactWrites(_)
ArtifactWrites(files) ==
    IF files = <<>> THEN <<>>
    ELSE <<HostCall("write_file_in_branch", Head(files))>> \o ArtifactWrites(Tail(files))

\* if error_message is None: ask for the files the notebook created and write
\* those that exist to the branch.  The prompt, text_to_json or a write may raise.
CofmArtifacts ==
    /\ pc = "cofm_artifacts"
    /\ UNCHANGED <<base_branch, branch_name, reports>>
    /\ UNCHANGED <<agent_name, split_pc, sub_tasks, issues>>
    /\ oracle_calls' = Append(oracle_calls,
           OracleCallWith("list_of_files", frame.not_executed_notebook))
    /\ \/ \E list_of_files \in ListsOfFiles(frame.filename) :
            /\ frame' = [frame EXCEPT !.list_of_files = list_of_files,
                                      !.created_files = Existing(list_of_files)]
            /\ host_calls' = host_calls \o ArtifactWrites(Existing(list_of_files))
       \/ \E list_of_files \in ListsOfFiles(frame.filename) :
            /\ Existing(list_of_files) /= <<>>
            /\ frame' = [frame EXCEPT !.list_of_files = list_of_files,
                                      !.created_files = <<Head(Existing(list_of_files))>>,
                                      !.raised = TRUE]
            /\ host_calls' = Append(host_calls,
                   Raising(HostCall("write_file_in_branch", Head(Existing(list_of_files)))))
       \/ /\ frame' = [frame EXCEPT !.raised = TRUE]
          /\ UNCHANGED host_calls
    /\ pc' = "cofm_finally"
    /\ UNCHANGED <<raw, instructions, i, processed, errors, commit_messages,
                   notebook_runs, cwd, environ, disk>>

FinallyCwdSkipped(current_dir) == cwd
FinallyEnvironSkipped(saved_environment) == environ

\* the working directory and the environment the finally clause leaves
FinallyCwd(current_dir) == current_dir
FinallyEnviron(saved_environment) == Restored(saved_environment)

\* except Exception: raise ValueError(...); finally: os.chdir(current_dir);
\* restore_environment(saved_environment)
CofmFinally ==
    /\ pc = "cofm_finally"
    /\ UNCHANGED <<base_branch, branch_name, reports>>
    /\ UNCHANGED <<agent_name, split_pc, sub_tasks, issues>>
    /\ cwd' = FinallyCwd(frame.current_dir)
    /\ environ' = FinallyEnviron(frame.saved_environment)
    /\ IF frame.raised
       THEN Except("ValueError: Error during notebook execution")
       ELSE /\ pc' = "cofm_finish"
            /\ UNCHANGED <<i, errors, frame>>
    /\ UNCHANGED <<raw, instructions, processed, commit_messages, host_calls,
                   oracle_calls, notebook_runs, disk>>

\* created_files.append(filename); redact; leave the loop unless an error
\* happened; write_file_in_branch and return to the create/modify branch, which
\* appends the message.  The write may raise.
CofmFinish ==
    /\ pc = "cofm_finish"
    /\ UNCHANGED <<base_branch, branch_name, reports>>
    /\ UNCHANGED <<agent_name, split_pc, sub_tasks, issues>>
    /\ IF frame.an_error_happened /\ frame.attempt + 1 < number_of_attempts
       THEN /\ frame' = [frame EXCEPT !.attempt = frame.attempt + 1,
                                      !.created_files = Append(frame.created_files, frame.filename)]
            /\ pc' = "cofm_attempt"
            /\ UNCHANGED <<i, errors, commit_messages, host_calls>>
       ELSE \/ /\ host_calls' = Append(host_calls,
                      HostWrite(frame.filename, frame.new_content))
               /\ commit_messages' = Append(commit_messages,
                      [i |-> i, what |-> "create_or_modify_file",
                       created_files |-> Append(frame.created_files, frame.filename)])
               /\ i' = i + 1
               /\ pc' = "loop"
               /\ frame' = NoFrame
               /\ UNCHANGED errors
            \/ /\ host_calls' = Append(host_calls,
                      Raising(HostWrite(frame.filename, frame.new_content)))
               /\ Except("GithubException")
               /\ UNCHANGED commit_messages
    /\ UNCHANGED <<raw, instructions, processed, oracle_calls, notebook_runs, cwd,
                   environ, disk>>

-----------------------------------------------------------------------------
(* the reporting step of solve_github_issue *)

\* a report as the host receives it: whether it carries the summary of the
\* changes, the errors it lists, the branches of a pull request, whether its
\* text went through redact_text
PullRequest ==
    [kind |-> "pull_request", summary |-> TRUE, errors |-> errors,
     source |-> branch_name, target |-> base_branch, posted |-> TRUE, raised |-> "",
     redacted |-> TRUE]
FallbackComment ==
    [kind |-> "comment", summary |-> FALSE, errors |-> errors,
     source |-> NoBranch, target |-> NoBranch, posted |-> TRUE, raised |-> "",
     redacted |-> FALSE]
PlainComment ==
    [kind |-> "comment", summary |-> TRUE, errors |-> errors,
     source |-> NoBranch, target |-> NoBranch, posted |-> TRUE, raised |-> "",
     redacted |-> TRUE]

\* the call did not go through: the host raised e
Failed(report, e) == [report EXCEPT !.posted = FALSE, !.raised = e]

SendsPullRequestAlways(branch, base) == TRUE

\* if branch_name != base_branch
SendsPullRequest(branch, base) == branch /= base

\* error_messages, the diff of the branches, the summary prompt and, for a pull
\* request, split_content_and_summary.  Any of the calls may raise.
Report ==
    /\ pc = "report"
    /\ UNCHANGED <<agent_name, split_pc, sub_tasks, issues>>
    /\ oracle_calls' = Append(oracle_calls, OracleCall("summary"))
    /\ \/ pc' = "send"
       \/ pc' = "report_raised"
    /\ UNCHANGED <<raw, instructions, i, processed, errors, commit_messages, host_calls,
                   notebook_runs, cwd, environ, disk, frame, base_branch, branch_name,
                   reports>>

\* send_pull_request, with a comment in its place when it raises
\* GithubException; add_comment_to_issue when the run continued on the base
\* branch.  Nothing catches another exception.
SendReport ==
    /\ pc = "send"
    /\ UNCHANGED <<agent_name, split_pc, sub_tasks, issues>>
    /\ IF SendsPullRequest(branch_name, base_branch)
       THEN \/ /\ reports' = Append(reports, PullRequest)
               /\ pc' = "done"
            \/ /\ reports' = reports \o
                     <<Failed(PullRequest, "GithubException"), FallbackComment>>
               /\ pc' = "done"
            \/ /\ reports' = reports \o
                     <<Failed(PullRequest, "GithubException"),
                       Failed(FallbackComment, "GithubException")>>
               /\ pc' = "report_raised"
            \/ /\ reports' = Append(reports, Failed(PullRequest, "Exception"))
               /\ pc' = "report_raised"
       ELSE \/ /\ reports' = Append(reports, PlainComment)
               /\ pc' = "done"
            \/ /\ reports' = Append(reports, Failed(PlainComment, "GithubException"))
               /\ pc' = "report_raised"
    /\ UNCHANGED <<raw, instructions, i, processed, errors, commit_messages, host_calls,
                   oracle_calls, notebook_runs, cwd, environ, disk, frame, base_branch,
                   branch_name>>

\* the execution loop with create_or_modify_file
Loop ==
    \/ SortInstructions
    \/ LoopHead
    \/ Guard
    \/ DispatchCreateOrModify
    \/ DispatchHostOperation
    \/ DispatchNothing
    \/ CofmAttempt
    \/ CofmReconcile
    \/ CofmChdir
    \/ CofmSaveEnvironment
    \/ CofmExecute
    \/ CofmArtifacts
    \/ CofmFinally
    \/ CofmFinish

Next ==
    \/ Plan
    \/ SelectBranch
    \/ Loop
    \/ Report
    \/ SendReport

Spec == Init /\ [][Next]_vars

-----------------------------------------------------------------------------
(* The sort by itself, on longer lists *)

SortRecords ==
    RawRecords \cup
    { Dict([action |-> Tag("download"), source_url |-> Url, target_filename |-> DataFile2]) }

SortLists == UNION { [1..n -> SortRecords] : n \in 0..MaxSortLen }

SortInit ==
    /\ raw \in SortLists
    /\ instructions = <<>>
    /\ pc = "sort"
    /\ i = 0
    /\ processed = <<>>
    /\ errors = <<>>
    /\ commit_messages = <<>>
    /\ host_calls = <<>>
    /\ oracle_calls = <<[i |-> 0, prompt |-> "modifications", environ |-> InitialEnviron,
                         cwd |-> <<>>, content |-> <<>>]>>
    /\ notebook_runs = <<>>
    /\ cwd = <<>>
    /\ environ = InitialEnviron
    /\ disk = {}
    /\ frame = NoFrame
    /\ base_branch = OtherBranch
    /\ branch_name = OtherBranch
    /\ reports = <<>>
    /\ agent_name = DefaultAgentName
    /\ split_pc = "idle"
    /\ sub_tasks = <<>>
    /\ issues = <<>>

SortNext == SortInstructions

SortSpec == SortInit /\ [][SortNext]_vars

-----------------------------------------------------------------------------
(* The run behind the branch selection of a call without base_branch, on the
   kinds of record that take different ways through the loop *)

MaxLoopActions == 2

LoopRecords ==
    { Dict([action |-> Tag("create"), filename |-> Notebook]),
      Dict([action |-> Tag("modify"), filename |-> PyFile]),
      Dict([action |-> Tag("download"), source_url |-> Url, target_filename |-> DataFile]),
      Dict([action |-> Tag("create"), filename |-> Workflow]),
      Dict([action |-> Tag("delete"), filename |-> Int5]),
      Dict([action |-> Tag("move"), filename |-> PyFile]),
      NotADict }

LoopLists == UNION { [1..n -> LoopRecords] : n \in 0..MaxLoopActions }

LoopInit ==
    /\ raw \in LoopLists
    /\ instructions = <<>>
    /\ pc = "sort"
    /\ i = 0
    /\ processed = <<>>
    /\ errors = <<>>
    /\ commit_messages = <<>>
    /\ host_calls = <<[i |-> 0, op |-> "create_branch", path |-> <<>>,
                       branch |-> NoBranch, content |-> <<>>, redacted |-> FALSE,
                       raised |-> FALSE]>>
    /\ oracle_calls = <<[i |-> 0, prompt |-> "modifications", environ |-> InitialEnviron,
                         cwd |-> <<>>, content |-> <<>>]>>
    /\ notebook_runs = <<>>
    /\ cwd = <<>>
    /\ environ = InitialEnviron
    /\ disk = {}
    /\ frame = NoFrame
    /\ base_branch = NoBranch
    /\ branch_name = NewBranch
    /\ reports = <<>>
    /\ agent_name = DefaultAgentName
    /\ split_pc = "idle"
    /\ sub_tasks = <<>>
    /\ issues = <<>>

LoopNext ==
    \/ Loop
    \/ Report
    \/ SendReport

LoopSpec == LoopInit /\ [][LoopNext]_vars

-----------------------------------------------------------------------------
(* The run behind the planning step for every base_branch, on records that
   need no notebook *)

MaxReported == 2

ReportRecords ==
    { Dict([action |-> Tag("modify"), filename |-> PyFile]),
      Dict([action |-> Tag("download"), source_url |-> Url, target_filename |-> DataFile]),
      Dict([action |-> Tag("delete"), filename |-> Int5]) }

ReportLists == UNION { [1..n -> ReportRecords] : n \in 0..MaxReported }

ReportInit ==
    /\ raw \in ReportLists
    /\ instructions = <<>>
    /\ pc = "branch"
    /\ i = 0
    /\ processed = <<>>
    /\ errors = <<>>
    /\ commit_messages = <<>>
    /\ host_calls = <<>>
    /\ oracle_calls = <<[i |-> 0, prompt |-> "modifications", environ |-> InitialEnviron,
                         cwd |-> <<>>, content |-> <<>>]>>
    /\ notebook_runs = <<>>
    /\ cwd = <<>>
    /\ environ = InitialEnviron
    /\ disk = {}
    /\ frame = NoFrame
    /\ base_branch \in BaseBranches
    /\ branch_name = NoBranch
    /\ reports = <<>>
    /\ agent_name = DefaultAgentName
    /\ split_pc = "idle"
    /\ sub_tasks = <<>>
    /\ issues = <<>>

ReportNext ==
    \/ SelectBranch
    \/ SortInstructions
    \/ LoopHead
    \/ Guard
    \/ DispatchCreateOrModify
    \/ DispatchHostOperation
    \/ CofmAttempt
    \/ CofmReconcile
    \/ CofmFinish
    \/ Report
    \/ SendReport

ReportSpec == ReportInit /\ [][ReportNext]_vars

-----------------------------------------------------------------------------
(* split_issue_in_sub_issues, for the agent names GIT_BOB_AGENT_NAME may give *)

MaxNameLen == 4
MaxBodyLen == 4
MaxSubTasks == 2

Chars == {"a", "_"}

Strings(n) == UNION { [1..k -> Chars] : k \in 0..n }

\* the configured names, none empty
AgentNames == Strings(MaxNameLen) \ {<<>>}

\* the bodies the oracle may write
Bodies == Strings(MaxBodyLen)

Titles == <<"t1", "t2", "t3", "t4">>

\* s[:n] and s[n:] of Python, n counted from 0
Prefix(s, n) == SubSeq(s, 1, IF n < Len(s) THEN n ELSE Len(s))
Suffix(s, n) == IF n >= Len(s) THEN <<>> ELSE SubSeq(s, n + 1, Len(s))

\* old in s
Contains(s, old) ==
    \E k \in 1..(Len(s) + 1) :
        k + Len(old) - 1 <= Len(s) /\ SubSeq(s, k, k + Len(old) - 1) = old

\* s.replace(old, new) for a non-empty old: the occurrences of old from the
\* left, none overlapping the one before
RECURSIVE Replace(_, _, _)
Replace(s, old, new) ==
    IF Len(s) < Len(old) THEN s
    ELSE IF SubSeq(s, 1, Len(old)) = old
         THEN new \o Replace(SubSeq(s, Len(old) + 1, Len(s)), old, new)
         ELSE <<Head(s)>> \o Replace(Tail(s), old, new)

\* AGENT_NAME[:3] + "_" + AGENT_NAME[4:]
Disarmed(name) == Prefix(name, 3) \o <<"_">> \o Suffix(name, 4)

SplitInit ==
    /\ raw = <<>>
    /\ instructions = <<>>
    /\ pc = "plan"
    /\ i = 0
    /\ processed = <<>>
    /\ errors = <<>>
    /\ commit_messages = <<>>
    /\ host_calls = <<>>
    /\ oracle_calls = <<>>
    /\ notebook_runs = <<>>
    /\ cwd = <<>>
    /\ environ = InitialEnviron
    /\ disk = {}
    /\ frame = NoFrame
    /\ base_branch = NoBranch
    /\ branch_name = NoBranch
    /\ reports = <<>>
    /\ agent_name \in AgentNames
    /\ split_pc = "sub_tasks"
    /\ sub_tasks = <<>>
    /\ issues = <<>>

\* the prompt for the sub-tasks and text_to_json
SubTasks ==
    /\ split_pc = "sub_tasks"
    /\ oracle_calls' = Append(oracle_calls, OracleCall("sub_tasks"))
    /\ \E n \in 0..MaxSubTasks : sub_tasks' = SubSeq(Titles, 1, n)
    /\ split_pc' = "loop"
    /\ UNCHANGED <<raw, instructions, pc, i, processed, errors, commit_messages,
                   host_calls, notebook_runs, cwd, environ, disk, frame, base_branch,
                   branch_name, reports, agent_name, issues>>

\* for title in sub_tasks: the prompt for the body, the replacement of the
\* agent name, create_issue.  The host may raise, and nothing catches it.
CreateSubIssue ==
    /\ split_pc = "loop"
    /\ sub_tasks /= <<>>
    /\ oracle_calls' = Append(oracle_calls, OracleCall("sub_task_body"))
    /\ \E generated \in Bodies :
         LET body == Replace(generated, agent_name, Disarmed(agent_name)) IN
         \/ /\ issues' = Append(issues, [title |-> Head(sub_tasks), body |-> body,
                                         redacted |-> FALSE])
            /\ sub_tasks' = Tail(sub_tasks)
            /\ split_pc' = "loop"
         \/ /\ split_pc' = "raised"
            /\ UNCHANGED <<issues, sub_tasks>>
    /\ UNCHANGED <<raw, instructions, pc, i, processed, errors, commit_messages,
                   host_calls, notebook_runs, cwd, environ, disk, frame, base_branch,
                   branch_name, reports, agent_name>>

\* the comment on the main issue that lists the sub-issues
CommentSubIssues ==
    /\ split_pc = "loop"
    /\ sub_tasks = <<>>
    /\ reports' = Append(reports,
           [kind |-> "comment", summary |-> FALSE, errors |-> <<>>, source |-> NoBranch,
            target |-> NoBranch, posted |-> TRUE, raised |-> "", redacted |-> FALSE])
    /\ split_pc' = "done"
    /\ UNCHANGED <<raw, instructions, pc, i, processed, errors, commit_messages,
                   host_calls, oracle_calls, notebook_runs, cwd, environ, disk, frame,
                   base_branch, branch_name, agent_name, sub_tasks, issues>>

SplitNext ==
    \/ SubTasks
    \/ CreateSubIssue
    \/ CommentSubIssues

SplitSpec == SplitInit /\ [][SplitNext]_vars

-----------------------------------------------------------------------------
(* Properties *)

Finished == pc \in {"report", "send", "done", "report_raised"}

Indices == [k \in 1..Len(instructions) |-> k]

ErrorsOf(k) == { n \in 1..Len(errors) : errors[n].i = k }
CommitsOf(k) == { n \in 1..Len(commit_messages) : commit_messages[n].i = k }
HostCallsOf(k) == { n \in 1..Len(host_calls) : host_calls[n].i = k }
OracleCallsOf(k) == { n \in 1..Len(oracle_calls) : oracle_calls[n].i = k }

\* the instruction has been processed to its end
Completed(k) == k < i \/ (k <= Len(instructions) /\ Finished)

Protected(instruction) ==
    \E k \in 1..Len(FilenameKeys) :
        /\ FilenameKeys[k] \in DOMAIN instruction.items
        /\ IsStr(instruction.items[FilenameKeys[k]])
        /\ ContainsGithub(instruction.items[FilenameKeys[k]])

\* C2: an instruction with a filename under the protected path is rejected
\* before execution: an error is recorded, and neither a repository-host
\* operation nor an oracle call is made for it.
C2_ProtectedPathIsRejected ==
    \A k \in 1..Len(instructions) :
        Protected(instructions[k]) =>
            /\ HostCallsOf(k) = {}
            /\ OracleCallsOf(k) = {}
            /\ Completed(k) => ErrorsOf(k) /= {}

IsDownload(x) == Get(x, "action") = Tag("download")
IsNoDownload(x) == ~IsDownload(x)

\* C3: the sequenced list is the raw list with the downloads moved to the
\* front: nothing dropped or duplicated, every download before every other
\* action, and both groups in the order of generation.
C3_DownloadsFirstStable ==
    pc = "loop" =>
        /\ Len(instructions) = Len(raw)
        /\ instructions = SelectSeq(raw, IsDownload) \o SelectSeq(raw, IsNoDownload)
        /\ \A a, b \in 1..Len(instructions) :
              IsDownload(instructions[b]) /\ IsNoDownload(instructions[a]) => b < a

\* C3 witness: a list where a download follows another action, with two
\* different downloads and two different other actions
C3_Witness ==
    /\ pc = "loop"
    /\ Len(raw) = 4
    /\ IsNoDownload(raw[1]) /\ IsDownload(raw[2]) /\ IsNoDownload(raw[3]) /\ IsDownload(raw[4])
    /\ raw[1] /= raw[3]
    /\ raw[2] /= raw[4]
    /\ instructions = <<raw[2], raw[4], raw[1], raw[3]>>

\* C4: after the loop every instruction has exactly one record, a commit
\* message or an error (stated for the lists of well-formed, unprotected
\* records, where the claim fails already).
C4_OneRecordPerAction ==
    (Finished /\ \A k \in 1..Len(instructions) : instructions[k] \in WellFormedRecords) =>
        /\ \A k \in 1..Len(instructions) :
              Cardinality(CommitsOf(k)) + Cardinality(ErrorsOf(k)) = 1
        /\ Len(commit_messages) + Len(errors) = Len(instructions)

\* the seven kinds of action
RecognizedTags ==
    { Tag("create"), Tag("modify"), Tag("rename"), Tag("copy"), Tag("delete"),
      Tag("download"), Tag("execute") }

\* C5: an instruction whose tag is none of the seven kinds is reported in the
\* error list and mutates nothing; an instruction with one of the seven tags is
\* acted upon or reported.
C5_TagsAreValidated ==
    \A k \in 1..Len(instructions) :
        (Completed(k) /\ "action" \in DOMAIN instructions[k].items) =>
            IF Get(instructions[k], "action") \in RecognizedTags
            THEN CommitsOf(k) /= {} \/ ErrorsOf(k) /= {}
            ELSE ErrorsOf(k) /= {} /\ HostCallsOf(k) = {}

\* the fields each kind of action carries
RequiredFields(action) ==
    IF action \in {Tag("create"), Tag("modify"), Tag("execute"), Tag("delete")}
    THEN {"filename"}
    ELSE IF action \in {Tag("rename"), Tag("copy")} THEN {"old_filename", "new_filename"}
    ELSE IF action = Tag("download") THEN {"source_url", "target_filename"}
    ELSE {}

MissesField(instruction) ==
    \/ "action" \notin DOMAIN instruction.items
    \/ ~(RequiredFields(Get(instruction, "action")) \subseteq DOMAIN instruction.items)

\* C6: an instruction that misses a required field, the tag included, gets a
\* failure record and no host operation, and the rest of the batch is processed.
C6_MissingFieldIsReported ==
    /\ \A k \in 1..Len(instructions) :
          MissesField(instructions[k]) =>
              /\ HostCallsOf(k) = {}
              /\ Completed(k) => ErrorsOf(k) /= {}
    /\ Finished => processed = Indices

\* C7: no record of the parsed list makes the sort or the protected-path check
\* raise.
C7_InvalidRecordsNeverRaise == pc /= "raised"

\* the positions between the snapshot and the end of the finally clause
InSandbox == {"cofm_execute", "cofm_artifacts", "cofm_finally"}

AfterChdir == {"cofm_save_environment"} \cup InSandbox

C10_FailedRunIsAnError ==
    \A n \in 1..Len(notebook_runs) :
        (notebook_runs[n].outcome /= "executed" /\ Completed(notebook_runs[n].i)) =>
            /\ ErrorsOf(notebook_runs[n].i) /= {}
            /\ CommitsOf(notebook_runs[n].i) = {}

NotebookRunsOf(k) == { n \in 1..Len(notebook_runs) : notebook_runs[n].i = k }

\* the calls of the content-generation prompt made for instruction k
ContentPromptsOf(k) == { n \in OracleCallsOf(k) : oracle_calls[n].prompt = "file_content" }

\* the errors with which an attempt of create_or_modify_file ends
AttemptFailures ==
    {"ContentSplitError", "OSError", "ValueError: Error during notebook execution"}

\* C11: a failed attempt is followed by another one while attempts are left, so
\* an error of an attempt reaches the error list only after number_of_attempts
\* attempts.
C11_FailedAttemptIsRetried ==
    \A n \in 1..Len(errors) :
        errors[n].what \in AttemptFailures =>
            Cardinality(ContentPromptsOf(errors[n].i)) = number_of_attempts

\* C20: an_error_happened is never true, the loop body runs once per call: at
\* most one content prompt and one notebook run per instruction, and no
\* instruction is taken up twice.
C20_RetryLoopRunsOnce ==
    /\ ~frame.an_error_happened
    /\ frame.attempt = 0
    /\ \A k \in 1..Len(instructions) :
          /\ Cardinality(ContentPromptsOf(k)) <= 1
          /\ Cardinality(NotebookRunsOf(k)) <= 1
    /\ \A a, b \in 1..Len(processed) : a < b => processed[a] < processed[b]

\* C20 witness: the only attempt of the first instruction ran a notebook that
\* reported an error, and the loop has moved on to the second instruction
C20_Witness ==
    /\ pc = "guard"
    /\ i = 2
    /\ \E n \in NotebookRunsOf(1) : notebook_runs[n].outcome = "error_message"
    /\ Cardinality(ContentPromptsOf(1)) = 1


-----------------------------------------------------------------------------
(* Notebook outputs: restore, fallback, erase *)

AfterOutputs ==
    {"cofm_chdir", "cofm_save_environment", "cofm_execute", "cofm_artifacts",
     "cofm_finally", "cofm_finish"}

\* the two documents have the same code cells, source by source
SameSources(a, b) == Len(a) = Len(b) /\ \A k \in DOMAIN a : a[k].source = b[k].source

NoOutputs(content) == \A k \in DOMAIN content : content[k].outputs = ""

ListPromptsOf(k) == { n \in OracleCallsOf(k) : oracle_calls[n].prompt = "list_of_files" }

\* the file of action k was on the branch when its content was asked for
ExistedAtPrompt(k) == \E n \in ContentPromptsOf(k) : oracle_calls[n].content /= <<>>

\* the writes of a notebook that was on the branch
NotebookRewrites ==
    { n \in 1..Len(host_calls) :
        /\ host_calls[n].op = "write_file_in_branch"
        /\ EndsWithIpynb(host_calls[n].path)
        /\ host_calls[n].content /= <<>>
        /\ ExistedAtPrompt(host_calls[n].i) }

\* C12: when the regenerated content of an existing notebook has the code
\* cells of the original, every cell gets the outputs of the original back,
\* that content is what is committed, and the call never executes: it goes
\* straight to the commit, with no directory change, no environment clearing,
\* no execute_notebook call and no artifact prompt.
C12_SameSourcesRestoreWithoutExecution ==
    /\ (/\ pc \in AfterOutputs
        /\ frame.original_ipynb_file_content
        /\ SameSources(frame.new_content, OriginalNotebook))
         => /\ pc = "cofm_finish"
            /\ frame.new_content = OriginalNotebook
            /\ ~frame.do_execute_notebook
            /\ NotebookRunsOf(i) = {}
            /\ ListPromptsOf(i) = {}
            /\ frame.saved_environment = {}
    /\ \A n \in NotebookRewrites :
          SameSources(host_calls[n].content, OriginalNotebook)
            => /\ host_calls[n].content = OriginalNotebook
               /\ NotebookRunsOf(host_calls[n].i) = {}
               /\ ListPromptsOf(host_calls[n].i) = {}

C12_Witness ==
    /\ pc = "guard"
    /\ i = 2
    /\ \E n \in NotebookRewrites :
          /\ host_calls[n].i = 1
          /\ host_calls[n].content = OriginalNotebook
    /\ NotebookRunsOf(1) = {}

\* the document the oracle returned, before and after the execution
GeneratedContent ==
    IF frame.not_executed_notebook /= <<>> THEN frame.not_executed_notebook
    ELSE frame.new_content

OriginalOutputs == { OriginalNotebook[k].outputs : k \in DOMAIN OriginalNotebook }

\* C13: when a code cell of the new content of an existing notebook has no
\* match in the original, no error is recorded for the action, no cell gets an
\* output of the original, and the whole new document is executed before it is
\* committed.
C13_FailedRestoreForcesExecution ==
    /\ (/\ pc \in AfterOutputs
        /\ frame.original_ipynb_file_content
        /\ ~SameSources(GeneratedContent, OriginalNotebook))
         => /\ frame.do_execute_notebook
            /\ ErrorsOf(i) = {}
            /\ \A k \in DOMAIN frame.new_content :
                  frame.new_content[k].outputs \notin OriginalOutputs
            /\ pc = "cofm_finish" =>
                  \E n \in NotebookRunsOf(i) :
                     /\ notebook_runs[n].content = frame.not_executed_notebook
                     /\ SameSources(notebook_runs[n].content, frame.new_content)
    /\ \A n \in NotebookRewrites :
          ~SameSources(host_calls[n].content, OriginalNotebook)
            => \E m \in NotebookRunsOf(host_calls[n].i) :
                  SameSources(notebook_runs[m].content, host_calls[n].content)

C13_Witness ==
    /\ pc = "guard"
    /\ i = 2
    /\ ErrorsOf(1) = {}
    /\ \E n \in NotebookRewrites :
          /\ host_calls[n].i = 1
          /\ ~SameSources(host_calls[n].content, OriginalNotebook)
          /\ \E m \in NotebookRunsOf(1) : notebook_runs[m].outcome = "executed"

\* C14 as claimed: the content handed to execute_notebook and the content
\* quoted in the artifact prompt never carry cell outputs.
C14_ExecutedContentHasNoOutputs ==
    /\ \A n \in 1..Len(notebook_runs) : NoOutputs(notebook_runs[n].content)
    /\ \A k \in 1..Len(instructions) :
          \A n \in ListPromptsOf(k) : NoOutputs(oracle_calls[n].content)

\* C15: a notebook that is not on the branch has the outputs of its generated
\* content erased and is executed before it is committed, wherever the call
\* stands after the outputs were dealt with; a file that is no notebook is
\* never executed.
C15_NewNotebookErasedAndExecuted ==
    /\ (/\ pc \in AfterOutputs
        /\ EndsWithIpynb(frame.filename)
        /\ ~frame.original_ipynb_file_content)
         => /\ frame.do_execute_notebook
            /\ NoOutputs(GeneratedContent)
            /\ pc = "cofm_finish" => NotebookRunsOf(i) /= {}
    /\ \A n \in 1..Len(notebook_runs) :
          ~ExistedAtPrompt(notebook_runs[n].i) => NoOutputs(notebook_runs[n].content)
    /\ \A n \in 1..Len(host_calls) :
          (/\ host_calls[n].op = "write_file_in_branch"
           /\ EndsWithIpynb(host_calls[n].path)
           /\ host_calls[n].content /= <<>>
           /\ ~ExistedAtPrompt(host_calls[n].i))
            => NotebookRunsOf(host_calls[n].i) /= {}
    /\ (pc \in AfterOutputs /\ ~EndsWithIpynb(frame.filename))
         => /\ pc = "cofm_finish"
            /\ ~frame.do_execute_notebook
            /\ NotebookRunsOf(i) = {}
    /\ \A n \in 1..Len(notebook_runs) :
          EndsWithIpynb(Strip(Get(instructions[notebook_runs[n].i], "filename")).v)

C15_Witness ==
    /\ pc = "cofm_execute"
    /\ ~frame.original_ipynb_file_content
    /\ frame.new_content = <<Cell("load", ""), Cell("plot2", "")>>


-----------------------------------------------------------------------------
(* Files created by the notebook *)

\* the file is on disk, seen from the directory the notebook ran in
OnDisk(file) == (frame.current_dir \o frame.path_without_filename \o file) \in disk

\* the paths of the files of action k written to the branch from disk
ArtifactPathsOf(k) ==
    LET written == SelectSeq(host_calls, LAMBDA h :
                       h.i = k /\ h.op = "write_file_in_branch" /\ h.content = <<>>)
    IN  [n \in DOMAIN written |-> written[n].path]

-----------------------------------------------------------------------------
(* Branch selection and the final report *)

CreateBranchCalls == { n \in 1..Len(host_calls) : host_calls[n].op = "create_branch" }

\* the calls the instructions of the list made
ActionCalls == { n \in 1..Len(host_calls) : host_calls[n].i >= 1 }

\* C16: a branch is created exactly when base_branch is None or names the
\* default branch, and it is created once; otherwise the working branch is
\* base_branch.  Every repository operation of an instruction names the working
\* branch, and with a new branch none names the default branch.
C16_BranchSelection ==
    /\ pc \in {"plan", "branch"} => host_calls = <<>>
    /\ pc \notin {"plan", "branch"} =>
          /\ CreateBranchCalls /= {} <=> base_branch \in {NoBranch, DefaultBranch}
          /\ Cardinality(CreateBranchCalls) <= 1
          /\ CreateBranchCalls /= {} => branch_name \notin BaseBranches
          /\ CreateBranchCalls = {} => branch_name = base_branch
          /\ \A n \in CreateBranchCalls : host_calls[n].branch = base_branch
    /\ \A n \in ActionCalls :
          /\ host_calls[n].branch = branch_name
          /\ CreateBranchCalls /= {} => host_calls[n].branch /= DefaultBranch

C16_Witness ==
    /\ pc = "done"
    /\ base_branch = DefaultBranch
    /\ CreateBranchCalls /= {}
    /\ \E n \in ActionCalls : host_calls[n].branch = NewBranch

ReportsOf(kind) == { n \in 1..Len(reports) : reports[n].kind = kind }
PostedReports == { n \in 1..Len(reports) : reports[n].posted }

\* the shape of the report of a run that has ended
ReportShape ==
    /\ Cardinality(PostedReports) = 1
    /\ branch_name /= base_branch =>
          /\ Cardinality(ReportsOf("pull_request")) = 1
          /\ ReportsOf("comment") /= {} <=>
                \E n \in ReportsOf("pull_request") : reports[n].raised = "GithubException"
    /\ branch_name = base_branch =>
          /\ ReportsOf("pull_request") = {}
          /\ Cardinality(ReportsOf("comment") \cap PostedReports) = 1

-----------------------------------------------------------------------------
(* The artifact step: working directory, environment, writes *)

\* C21 as claimed: when the files the oracle named are looked up, the working
\* directory is the one the call started in, not the directory of the notebook.
C21_ArtifactsLookedUpFromTheRoot ==
    pc = "cofm_artifacts" => cwd = frame.current_dir

\* C24: no call of prompt_function is made with os.environ cleared: the content
\* prompt comes before save_and_clear_environment, the artifact prompt behind
\* the restore_environment that follows the execution, and both see the
\* environment of the snapshot.
C24_OracleNeverSeesClearedEnviron ==
    /\ \A n \in 1..Len(oracle_calls) :
          /\ oracle_calls[n].environ /= Cleared(InitialEnviron)
          /\ oracle_calls[n].environ = InitialEnviron
    /\ pc = "cofm_artifacts" => environ = frame.saved_environment
    /\ pc = "cofm_attempt" => frame.saved_environment = {}

C24_Witness ==
    /\ pc = "cofm_finally"
    /\ \E n \in ListPromptsOf(i) : oracle_calls[n].environ = InitialEnviron
    /\ \E n \in ContentPromptsOf(i) : oracle_calls[n].environ = InitialEnviron
    /\ frame.saved_environment = InitialEnviron

\* the writes of action k the host carried out
WritesDone(k) ==
    { n \in HostCallsOf(k) :
        host_calls[n].op = "write_file_in_branch" /\ ~host_calls[n].raised }

IsCreateOrModify(instruction) ==
    IsDict(instruction) /\ Get(instruction, "action") \in {Tag("create"), Tag("modify")}

\* C22 as claimed: a create or modify instruction that ended with an error has
\* written no file to the branch.
C22_FailedActionWritesNothing ==
    \A k \in 1..Len(instructions) :
        (/\ IsCreateOrModify(instructions[k])
         /\ \E n \in ErrorsOf(k) : errors[n].kind = "exception")
          => WritesDone(k) = {}

\* C23 as claimed: every text sent to the host, the content and message of a
\* committed file, a pull request and a comment on each reporting path, went
\* through redact_text.
C23_EverythingSentIsRedacted ==
    /\ \A n \in 1..Len(host_calls) :
          host_calls[n].content /= <<>> => host_calls[n].redacted
    /\ \A n \in 1..Len(reports) : reports[n].redacted

-----------------------------------------------------------------------------
(* Sub-issues *)

\* C25 as claimed: the body of every sub-issue that is created is free of the
\* agent name, whatever name is configured and whatever body the oracle wrote.
C25_SubIssueBodyHasNoAgentName ==
    \A n \in 1..Len(issues) : ~Contains(issues[n].body, agent_name)

====
